---------------------------- MODULE Spec2Model ----------------------------
(***************************************************************************)
(* The abstract classifier of src/src/one_shot_classifier.py: the label    *)
(* taxonomy, the keyword prefilter, decide() and the module-level batch    *)
(* loop that writes abstract_decisions.csv; and, as a second program with  *)
(* a specification of its own, the DOI harvester fetch_all_dois of         *)
(* src/extract_doi_from_keywords.py.                                       *)
(*                                                                         *)
(* Texts are TLA+ strings and the regular expressions are matched on       *)
(* their characters.  Scores are fixed-point numbers: a score s of the     *)
(* code is the integer 100*s, and priority_score p is the integer 1000*p.  *)
(***************************************************************************)
EXTENDS Integers, Sequences, FiniteSets, TLC

(***************************************************************************)
(* Labels (lines 9-44).  The en dash of "stress-strain" is written as an   *)
(* ASCII hyphen: labels are only compared for equality.                    *)
(***************************************************************************)
POSITIVE_LABELS ==
    << "polymer molecular dynamics with force fields",
       "all-atom polymer molecular dynamics",
       "united-atom polymer molecular dynamics",
       "coarse-grained polymer MD (MARTINI)",
       "reactive polymer MD (ReaxFF)",
       "polymer melt or solution MD",
       "MD of polymer blends or copolymers",
       "polymer MD using LAMMPS or GROMACS",
       "polymer MD with OPLS/AMBER/CHARMM/COMPASS/DREIDING/PCFF/GROMOS/TraPPE" >>

PROPERTY_LABELS ==
    << "polymer properties from MD (viscosity, diffusion, Tg)",
       "MD evaluation of polymer viscosity (rheology)",
       "MD estimation of polymer glass transition temperature (Tg)",
       "MD calculation of polymer diffusion or self-diffusion",
       "MD calculation of polymer mechanical properties (Young's modulus, stress-strain)",
       "MD prediction of polymer density or radius of gyration",
       "MD calculation of polymer transport or permeability" >>

NEGATIVE_LABELS ==
    << "experimental polymer rheology (no simulation)",
       "polymer synthesis or characterization (no simulation)",
       "quantum chemistry or DFT (no MD)",
       "Monte Carlo simulations (not MD)",
       "dissipative particle dynamics (DPD) without atomistic force fields",
       "continuum modeling or FEM/CFD (no MD)",
       "biomolecular MD (proteins/DNA, not polymers)",
       "materials science unrelated to polymers",
       "machine learning predictions without MD simulation",
       "review article (survey)" >>

\* candidate labels without the property group
labels_without_property == POSITIVE_LABELS \o NEGATIVE_LABELS

\* line 44
LABELS == POSITIVE_LABELS \o PROPERTY_LABELS \o NEGATIVE_LABELS

(***************************************************************************)
(* Keyword patterns (lines 47-64).  Every pattern of the source has the    *)
(* shape \b<literal with alternatives>\b; a pattern is the set of the      *)
(* literals its alternatives expand to, and re_search puts the two \b      *)
(* around each.  The en-dash alternative of stress[-–]strain is left out:  *)
(* the texts of the model are ASCII.                                       *)
(***************************************************************************)
MD_TERMS ==
    << {"molecular dynamics"}, {"MD"}, {"MD simulation", "MD simulations"},
       {"LAMMPS"}, {"GROMACS"}, {"NAMD"} >>

FF_TERMS ==
    << {"force-field", "force field"}, {"OPLS"}, {"AMBER"}, {"CHARMM"},
       {"COMPASS"}, {"DREIDING"}, {"PCFF"}, {"GROMOS"}, {"TraPPE"},
       {"MARTINI"}, {"ReaxFF"},
       {"coarse-grained", "coarse grained"},
       {"united-atom", "united atom"}, {"all-atom", "all atom"} >>

PROPERTY_TERMS ==
    << {"viscosity", "viscosities"}, {"rheology", "rheological"},
       {"glass transition"}, {"Tg"},
       {"diffusion", "diffusivity"},
       {"self-diffusion", "self diffusion", "self-diffusivity", "self diffusivity"},
       {"Young's modulus", "Youngs modulus"}, {"elastic modulus"},
       {"stress-strain"},
       {"density"}, {"radius of gyration"}, {"Rg", "RG"},
       {"permeability", "permeabilities"}, {"transport"},
       {"thermal conductivity"},
       {"dielectric constant", "dielectric permittivity"}, {"conductivity"} >>

(***************************************************************************)
(* Characters: str.lower(), the word characters of \b, str.strip().        *)
(***************************************************************************)
UpperCase == "ABCDEFGHIJKLMNOPQRSTUVWXYZ"
LowerCase == "abcdefghijklmnopqrstuvwxyz"
Digits    == "0123456789_"

CharsOf(s) == { SubSeq(s, i, i) : i \in 1..Len(s) }

WordChars == CharsOf(UpperCase) \cup CharsOf(LowerCase) \cup CharsOf(Digits)

WhiteSpace == {" ", "\n", "\t"}

lower_char(c) ==
    IF c \in CharsOf(UpperCase)
    THEN LET i == CHOOSE k \in 1..Len(UpperCase) : SubSeq(UpperCase, k, k) = c
         IN  SubSeq(LowerCase, i, i)
    ELSE c

RECURSIVE lower(_)
lower(s) == IF s = "" THEN "" ELSE lower_char(Head(s)) \o lower(Tail(s))

RECURSIVE lstrip(_)
lstrip(s) == IF s # "" /\ Head(s) \in WhiteSpace THEN lstrip(Tail(s)) ELSE s

RECURSIVE rstrip(_)
rstrip(s) ==
    IF s # "" /\ SubSeq(s, Len(s), Len(s)) \in WhiteSpace
    THEN rstrip(SubSeq(s, 1, Len(s) - 1))
    ELSE s

strip(s) == rstrip(lstrip(s))

\* "sub in t" of Python
contains(t, sub) ==
    \E i \in 1..(Len(t) - Len(sub) + 1) : SubSeq(t, i, i + Len(sub) - 1) = sub

\* the character at position k is a word character (none outside the text)
word_at(text, k) == k \in 1..Len(text) /\ SubSeq(text, k, k) \in WordChars

\* \b between positions k and k+1
word_boundary(text, k) == word_at(text, k) # word_at(text, k + 1)

\* re.search(r"\b(a1|a2|...)\b", text, re.I) is not None
re_search(p, text) ==
    LET t == lower(text)
    IN  \E a \in p :
          \E i \in 1..(Len(text) - Len(a) + 1) :
             /\ SubSeq(t, i, i + Len(a) - 1) = lower(a)
             /\ word_boundary(text, i - 1)
             /\ word_boundary(text, i + Len(a) - 1)

any_search(terms, text) == \E k \in 1..Len(terms) : re_search(terms[k], text)

(***************************************************************************)
(* prefilter (lines 66-71)                                                 *)
(***************************************************************************)
\* polymer vocabulary by the prefix "poly"
has_poly_prefix(text) == contains(lower(text), "poly")

has_poly(text) ==
    LET t == lower(text) IN contains(t, "polymer") \/ contains(t, "polymeric")

md_hit(text) == any_search(MD_TERMS, text)

ff_hit(text) == any_search(FF_TERMS, text)

\* "has_poly and md_hit or ff_hit": the parentheses of line 71 forgotten
prefilter_unparenthesised(text) == (has_poly(text) /\ md_hit(text)) \/ ff_hit(text)

prefilter(text) == has_poly(text) /\ (md_hit(text) \/ ff_hit(text))

(***************************************************************************)
(* Python values used by decide() and the batch loop.  A dict is the       *)
(* sequence of its <<key, value>> items in insertion order.                *)
(***************************************************************************)
Min(a, b) == IF a <= b THEN a ELSE b

dict_has(d, k) == \E i \in 1..Len(d) : d[i][1] = k

\* d[k] = v: a new key is appended, an old key keeps its place
dict_set(d, k, v) ==
    IF dict_has(d, k)
    THEN [i \in 1..Len(d) |-> IF d[i][1] = k THEN <<k, v>> ELSE d[i]]
    ELSE Append(d, <<k, v>>)

\* d.get(k, default)
dict_get(d, k, default) ==
    IF dict_has(d, k)
    THEN LET i == CHOOSE j \in 1..Len(d) : d[j][1] = k IN d[i][2]
    ELSE default

RECURSIVE dict_zip_from(_, _, _, _)
dict_zip_from(keys, vals, i, d) ==
    IF i > Min(Len(keys), Len(vals))
    THEN d
    ELSE dict_zip_from(keys, vals, i + 1, dict_set(d, keys[i], vals[i]))

\* dict(zip(keys, vals)): zip stops at the shorter sequence
dict_zip(keys, vals) == dict_zip_from(keys, vals, 1, << >>)

RECURSIVE max_from(_, _, _)
max_from(xs, i, m) ==
    IF i > Len(xs) THEN m
    ELSE max_from(xs, i + 1, IF xs[i] > m THEN xs[i] ELSE m)

\* max(score_map.get(k, 0.0) for k in group), the group not empty
group_max(score_map, group) ==
    LET xs == [i \in 1..Len(group) |-> dict_get(score_map, group[i], 0)]
    IN  max_from(xs, 2, xs[1])

\* the place of item x before the items that are not larger
RECURSIVE insert_desc_before_equal(_, _)
insert_desc_before_equal(sorted, x) ==
    IF sorted = << >> THEN << x >>
    ELSE IF Head(sorted)[2] > x[2]
         THEN << Head(sorted) >> \o insert_desc_before_equal(Tail(sorted), x)
         ELSE << x >> \o sorted

\* the place of item x in a sequence already sorted by descending x[2]:
\* after every item that is not smaller (a stable sort)
RECURSIVE insert_desc(_, _)
insert_desc(sorted, x) ==
    IF sorted = << >> THEN << x >>
    ELSE IF Head(sorted)[2] >= x[2]
         THEN << Head(sorted) >> \o insert_desc(Tail(sorted), x)
         ELSE << x >> \o sorted

RECURSIVE sorted_desc_from(_, _, _)
sorted_desc_from(items, i, acc) ==
    IF i > Len(items) THEN acc
    ELSE sorted_desc_from(items, i + 1, insert_desc(acc, items[i]))

\* sorted(items, key=lambda x: x[1], reverse=True)
sorted_desc(items) == sorted_desc_from(items, 1, << >>)

\* xs[:n]
take(xs, n) == SubSeq(xs, 1, Min(n, Len(xs)))

(***************************************************************************)
(* Bounds of the model.  BATCH_SIZE is 16 in the source (line 132, "tune   *)
(* for GPU RAM"); the model runs the same loop with a smaller capacity so  *)
(* that a folder of MaxFiles files spans several chunks.                   *)
(***************************************************************************)
MaxFiles == 3

BATCH_SIZE == 2

(***************************************************************************)
(* Inputs.  Texts are the abstracts decide() is called with; FileContents  *)
(* are the raw contents of the files of the input folder (before strip()). *)
(***************************************************************************)
Texts ==
    << "We performed coarse-grained MARTINI molecular dynamics of polystyrene melts",
       "Synthesis and DSC characterization of a new polyester",
       "Molecular dynamics of polymer melts",
       "Polymer viscosity from all-atom MD simulations",
       "MDMA uptake in polymeric films",
       "OPLS force field for copolymers",
       "LAMMPS study of water",
       "OPLS parameters for water",
       "A new polymer",
       "" >>

FileContents ==
    { " Molecular dynamics of polymer melts \n",
      "Polymer viscosity from all-atom MD simulations",
      "MDMA uptake in polymeric films",
      "LAMMPS study of water" }

\* sorted(glob("abstract/*.txt")) (line 138): distinct paths in sorted order
Paths ==
    << "abstract/abstract1.txt", "abstract/abstract2.txt", "abstract/abstract3.txt",
       "abstract/abstract4.txt", "abstract/abstract5.txt", "abstract/abstract6.txt" >>

(***************************************************************************)
(* The zero-shot pipeline clf (lines 5-6), an external model.  It returns  *)
(* a dict with the labels sorted by descending score.  A scorer is one of  *)
(* a family of deterministic functions from text to result; besides the    *)
(* well-formed results the family holds a result that lacks the positive   *)
(* labels and one without a "labels" key.                                  *)
(***************************************************************************)
Reverse(xs) == [i \in 1..Len(xs) |-> xs[Len(xs) + 1 - i]]

group_items(group, peak, v) ==
    [i \in 1..Len(group) |-> << group[i], IF i = peak THEN v ELSE v \div 2 >>]

label_items(pos, prop, neg) ==
    group_items(POSITIVE_LABELS, 9, pos) \o group_items(PROPERTY_LABELS, 3, prop)
        \o group_items(NEGATIVE_LABELS, 2, neg)

pipeline_result(items, ties_reversed) ==
    LET s == sorted_desc(IF ties_reversed THEN Reverse(items) ELSE items)
    IN  [labels |-> [i \in 1..Len(s) |-> s[i][1]],
         scores |-> [i \in 1..Len(s) |-> s[i][2]]]

without_positive(items) ==
    SelectSeq(items, LAMBDA x : \A i \in 1..Len(POSITIVE_LABELS) : POSITIVE_LABELS[i] # x[1])

Responses ==
    << pipeline_result(label_items(85, 40, 5), TRUE),
       pipeline_result(label_items(85, 72, 5), FALSE),
       pipeline_result(label_items(71, 30, 60), TRUE),
       pipeline_result(label_items(60, 90, 5), TRUE),
       pipeline_result(label_items(70, 65, 55), FALSE),
       pipeline_result(label_items(69, 62, 5), TRUE),
       pipeline_result(without_positive(label_items(85, 72, 5)), TRUE),
       [sequence |-> "", error |-> "malformed"] >>

text_index(text) ==
    IF \E i \in 1..Len(Texts) : Texts[i] = text
    THEN CHOOSE i \in 1..Len(Texts) : Texts[i] = text
    ELSE 0

\* the result scorer m computes for a text
scorer_result(m, text) == Responses[((m + text_index(text)) % Len(Responses)) + 1]

(***************************************************************************)
(* The keyword searches are pure functions of the text; they are computed  *)
(* once for every text of the model and looked up from then on.            *)
(***************************************************************************)
TextUniverse ==
    { Texts[i] : i \in 1..Len(Texts) } \cup { strip(c) : c \in FileContents }

prefilter_memo == [t \in TextUniverse |-> prefilter(t)]

property_terms_memo == [t \in TextUniverse |-> any_search(PROPERTY_TERMS, t)]

(***************************************************************************)
(* decide (lines 73-121).  clf_reply is what the call of clf at lines      *)
(* 87-92 does when it is made: [raised |-> TRUE] when the pipeline raises, *)
(* else [raised |-> FALSE, value |-> res].  The result tells how the call  *)
(* of decide ended (a returned dict or a raised exception) and lists the   *)
(* texts clf was called with.                                              *)
(***************************************************************************)
DefaultConfig ==
    [accept_threshold |-> 70, accept_margin |-> 15,
     priority_threshold |-> 65, priority_margin |-> 10]

\* a rejection that reports like a scored rejection
rejection_as_scored ==
    [accept |-> FALSE, priority |-> FALSE, reason |-> "pos low or margin small",
     score_pos |-> 0, score_neg |-> 0, score_prop |-> 0,
     priority_score |-> 50, top |-> << >>]

\* lines 83-85
prefilter_rejection ==
    [accept |-> FALSE, priority |-> FALSE, reason |-> "fails keyword prefilter",
     score_pos |-> 0, score_neg |-> 0, score_prop |-> 0,
     priority_score |-> 0, top |-> << >>]

\* a boost of 0.10
kw_boost_doubled(prop_kw) == IF prop_kw THEN 100 ELSE 0

\* line 101
kw_boost_of(prop_kw) == IF prop_kw THEN 50 ELSE 0

\* the two weights exchanged
priority_score_swapped(score_prop, score_pos, kw_boost) ==
    3 * score_prop + 7 * score_pos + kw_boost

\* line 104, in thousandths
priority_score_of(score_prop, score_pos, kw_boost) ==
    7 * score_prop + 3 * score_pos + kw_boost

\* accept without the margin test
accept_threshold_only(score_pos, score_neg, cfg) == score_pos >= cfg.accept_threshold

\* accept with the threshold comparison the wrong way round
accept_threshold_flipped(score_pos, score_neg, cfg) ==
    /\ score_pos <= cfg.accept_threshold
    /\ (score_pos - score_neg) >= cfg.accept_margin

\* line 108
accept_rule(score_pos, score_neg, cfg) ==
    /\ score_pos >= cfg.accept_threshold
    /\ (score_pos - score_neg) >= cfg.accept_margin

\* priority with the operands of the margin test exchanged
priority_margin_exchanged(priority_score, score_prop, score_neg, cfg) ==
    /\ priority_score >= 10 * cfg.priority_threshold
    /\ (score_neg - score_prop) >= cfg.priority_margin

\* line 109
priority_rule(priority_score, score_prop, score_neg, cfg) ==
    /\ priority_score >= 10 * cfg.priority_threshold
    /\ (score_prop - score_neg) >= cfg.priority_margin

\* lines 93-121: the dict returned for a text that passed the prefilter
scored_decision(abstract_text, cfg, res) ==
    LET score_map  == dict_zip(res.labels, res.scores)
        score_pos  == group_max(score_map, POSITIVE_LABELS)
        score_neg  == group_max(score_map, NEGATIVE_LABELS)
        score_prop == group_max(score_map, PROPERTY_LABELS)
        prop_kw    == property_terms_memo[abstract_text]
        kw_boost   == kw_boost_of(prop_kw)
        priority_score == priority_score_of(score_prop, score_pos, kw_boost)
        top        == take(sorted_desc(score_map), 6)
        accept     == accept_rule(score_pos, score_neg, cfg)
        priority   == priority_rule(priority_score, score_prop, score_neg, cfg)
    IN  [accept |-> accept,
         priority |-> priority,
         reason |-> IF accept THEN "pos high & margin over neg"
                              ELSE "pos low or margin small",
         score_pos |-> score_pos,
         score_neg |-> score_neg,
         score_prop |-> score_prop,
         priority_score |-> priority_score,
         prop_keywords |-> prop_kw,
         top |-> top]

\* the arguments of the call of clf at lines 87-92
clf_call(abstract_text) == [sequences |-> abstract_text, candidate_labels |-> LABELS]

\* decide without the return of lines 81-85
decide_without_gate(abstract_text, cfg, clf_reply) ==
    IF clf_reply.raised
    THEN [kind |-> "raise", error |-> "scorer", clf_calls |-> << clf_call(abstract_text) >>]
    ELSE IF ~({"labels", "scores"} \subseteq DOMAIN clf_reply.value)
    THEN [kind |-> "raise", error |-> "KeyError", clf_calls |-> << clf_call(abstract_text) >>]
    ELSE [kind |-> "return",
          value |-> scored_decision(abstract_text, cfg, clf_reply.value),
          clf_calls |-> << clf_call(abstract_text) >>]

decide(abstract_text, cfg, clf_reply) ==
    IF ~prefilter_memo[abstract_text]
    THEN [kind |-> "return", value |-> prefilter_rejection, clf_calls |-> << >>]
    ELSE IF clf_reply.raised
    THEN [kind |-> "raise", error |-> "scorer", clf_calls |-> << clf_call(abstract_text) >>]
    ELSE IF ~({"labels", "scores"} \subseteq DOMAIN clf_reply.value)
    THEN [kind |-> "raise", error |-> "KeyError", clf_calls |-> << clf_call(abstract_text) >>]
    ELSE [kind |-> "return",
          value |-> scored_decision(abstract_text, cfg, clf_reply.value),
          clf_calls |-> << clf_call(abstract_text) >>]

\* the configurations decide() is called with: the defaults, two tunings and
\* one with accept_threshold = 1.5 and priority_margin = -0.1, which the
\* signature of lines 73-75 takes like any other
Configs ==
    { DefaultConfig,
      [accept_threshold |-> 60, accept_margin |-> 10,
       priority_threshold |-> 50, priority_margin |-> 5],
      [accept_threshold |-> 80, accept_margin |-> 30,
       priority_threshold |-> 70, priority_margin |-> 20],
      [accept_threshold |-> 150, accept_margin |-> 15,
       priority_threshold |-> 65, priority_margin |-> -10] }

(***************************************************************************)
(* The batch script (lines 130-215).                                       *)
(***************************************************************************)
RECURSIVE basename_from(_, _)
basename_from(path, i) ==
    IF i = 0 THEN path
    ELSE IF SubSeq(path, i, i) = "/" THEN SubSeq(path, i + 1, Len(path))
    ELSE basename_from(path, i - 1)

\* os.path.basename
basename(path) == basename_from(path, Len(path))

\* AbstractFolder.__getitem__ (lines 147-151)
getitem(file) == [filename |-> basename(file.path), text |-> strip(file.content)]

\* batches of one file more than BATCH_SIZE
loader_batch_one_more(fs, first) ==
    LET last == Min(first + BATCH_SIZE, Len(fs))
    IN  [i \in 1..(last - first + 1) |-> getitem(fs[first + i - 1])]

\* the batches of DataLoader(batch_size=BATCH_SIZE, shuffle=False): the batch
\* that starts at file number first
loader_batch(fs, first) ==
    LET last == Min(first + BATCH_SIZE - 1, Len(fs))
    IN  [i \in 1..(last - first + 1) |-> getitem(fs[first + i - 1])]

\* a loop that scores every text of the batch, whatever the mask
to_run_all(mask) == [i \in 1..Len(mask) |-> i]

\* [i for i, m in enumerate(mask) if m] (line 183), indices from 1
to_run_indices(mask) == SelectSeq([i \in 1..Len(mask) |-> i], LAMBDA i : mask[i])

\* lines 199-206: the accept of one output of the pipeline
batch_accept(out) ==
    LET score_map  == dict_zip(out.labels, out.scores)
        score_pos  == group_max(score_map, POSITIVE_LABELS)
        score_neg  == group_max(score_map, NEGATIVE_LABELS)
        score_prop == group_max(score_map, PROPERTY_LABELS)
    IN  (score_pos >= 70) /\ ((score_pos - score_neg) >= 15)

\* the k-th output written to place k of the batch
write_accepts_local(accepts, indices, outputs) ==
    [g \in 1..Len(accepts) |->
        IF g <= Len(outputs) THEN batch_accept(outputs[g]) ELSE accepts[g]]

\* lines 198-209: accepts after the outputs are written to their global indices;
\* enumerate(outputs) stops at the shorter of outputs and to_run_indices only
\* through an IndexError, so the outputs are never more than the indices here
write_accepts(accepts, indices, outputs) ==
    [g \in 1..Len(accepts) |->
        IF \E k \in 1..Len(outputs) : indices[k] = g
        THEN batch_accept(outputs[CHOOSE k \in 1..Len(outputs) : indices[k] = g])
        ELSE accepts[g]]

(***************************************************************************)
(* State.                                                                  *)
(*   input_dir  whether the folder INPUT_DIR exists                        *)
(*   files      the sorted files of the folder, each a path and a content  *)
(*   clf_model  the scorer behind clf                                      *)
(*   pc         "start", "loop" (the for loop of line 172), "done" (the    *)
(*              script ran to its end), "raised" (an exception ended it)   *)
(*   error      the exception that ended the script                        *)
(*   rows       the data rows written to OUTPUT_CSV                        *)
(*   clf_log    the calls of clf made by the loop, in order                *)
(*   dec_in     the arguments of the call of decide() and what clf does    *)
(*              for its text                                               *)
(*   dec        how the call of decide() ended                             *)
(***************************************************************************)
VARIABLES input_dir, files, clf_model, pc, error, rows, clf_log, dec_in, dec

\* fetch_all_dois of src/extract_doi_from_keywords.py (lines 4-47):
\*   hpc            where the function stands: "request" (line 23), "page"
\*                  (line 30), "items" (the for loop of line 35), "done" (line 47)
\*   cursor         the cursor of the page being fetched
\*   attempt        requests made for that page
\*   response       r, the last response
\*   pending        the items of the page not yet looked at
\*   seen           the DOIs written so far
\*   out_file       the lines of output_file
\*   total_fetched  the counter of line 8
\*   page, requests the number of the page being fetched and, for every request
\*                  made, its page and the status it got
VARIABLES hpc, cursor, attempt, response, pending, seen, out_file, total_fetched, page, requests

classifier_vars == << input_dir, files, clf_model, pc, error, rows, clf_log, dec_in, dec >>

harvest_vars ==
    << hpc, cursor, attempt, response, pending, seen, out_file, total_fetched, page,
       requests >>

vars == << classifier_vars, harvest_vars >>

\* lines 6-13 of fetch_all_dois: the state when the while loop is entered
fetch_all_dois_entry ==
    /\ hpc = "request"
    /\ cursor = << "*" >>
    /\ attempt = 0
    /\ response = [status_code |-> 0]
    /\ pending = << >>
    /\ seen = {}
    /\ out_file = << >>
    /\ total_fetched = 0
    /\ page = 1
    /\ requests = << >>

Init ==
    /\ input_dir \in BOOLEAN
    /\ \E n \in 0..MaxFiles :
         \E c \in [1..n -> FileContents] :
            /\ input_dir \/ n = 0
            /\ files = [i \in 1..n |-> [path |-> Paths[i], content |-> c[i]]]
    /\ clf_model \in 1..Len(Responses)
    /\ pc = "start"
    /\ error = "none"
    /\ rows = << >>
    /\ clf_log = << >>
    /\ dec_in = [kind |-> "none"]
    /\ dec = [kind |-> "none"]
    /\ fetch_all_dois_entry

\* lines 135-140
Startup ==
    /\ pc = "start"
    /\ IF ~input_dir \/ files = << >>
       THEN pc' = "raised" /\ error' = "FileNotFoundError"
       ELSE pc' = "loop" /\ error' = error
    /\ UNCHANGED << input_dir, files, clf_model, rows, clf_log, dec_in, dec >>
    /\ UNCHANGED harvest_vars

\* what clf(run_texts, ...) returns (lines 186-192): a list of dicts, or for a
\* single text, depending on the version of the library, the dict itself
clf_outputs(run_texts, as_dict) ==
    LET outs == [k \in 1..Len(run_texts) |-> scorer_result(clf_model, run_texts[k])]
    IN  IF as_dict /\ Len(run_texts) = 1
        THEN [is_dict |-> TRUE, value |-> outs[1]]
        ELSE [is_dict |-> FALSE, value |-> outs]

\* lines 194-195
ensure_list(outputs) == IF outputs.is_dict THEN << outputs.value >> ELSE outputs.value

\* rows written for the accepted files only
emit_accepted_only(filenames, accepts) ==
    SelectSeq([i \in 1..Min(Len(filenames), Len(accepts)) |->
                  [filename |-> filenames[i], accept |-> accepts[i]]],
              LAMBDA r : r.accept)

\* lines 212-213
emit(filenames, accepts) ==
    [i \in 1..Min(Len(filenames), Len(accepts)) |->
        [filename |-> filenames[i], accept |-> accepts[i]]]

\* one iteration of the for loop of lines 172-213
BatchStep ==
    /\ pc = "loop"
    /\ Len(rows) < Len(files)
    /\ LET first     == Len(rows) + 1
           batch     == loader_batch(files, first)
           filenames == [i \in 1..Len(batch) |-> batch[i].filename]
           texts     == [i \in 1..Len(batch) |-> batch[i].text]
           mask      == [i \in 1..Len(texts) |-> prefilter_memo[texts[i]]]
           accepts   == [i \in 1..Len(texts) |-> FALSE]
           indices   == to_run_indices(mask)
           run_texts == [k \in 1..Len(indices) |-> texts[indices[k]]]
       IN  IF indices = << >>
           THEN /\ rows' = rows \o emit(filenames, accepts)
                /\ UNCHANGED << pc, error, clf_log >>
           ELSE \E raised \in BOOLEAN, as_dict \in BOOLEAN :
                  LET outputs == ensure_list(clf_outputs(run_texts, as_dict))
                      call    == [first |-> first, texts |-> run_texts,
                                  candidate_labels |-> LABELS, raised |-> raised,
                                  is_dict |-> clf_outputs(run_texts, as_dict).is_dict]
                  IN  /\ clf_log' = Append(clf_log, call)
                      /\ IF raised
                         THEN pc' = "raised" /\ error' = "scorer" /\ rows' = rows
                         ELSE IF \E k \in 1..Len(outputs) :
                                    ~({"labels", "scores"} \subseteq DOMAIN outputs[k])
                         THEN pc' = "raised" /\ error' = "KeyError" /\ rows' = rows
                         ELSE /\ rows' = rows \o emit(filenames,
                                              write_accepts(accepts, indices, outputs))
                              /\ UNCHANGED << pc, error >>
    /\ UNCHANGED << input_dir, files, clf_model, dec_in, dec >>
    /\ UNCHANGED harvest_vars

\* the loader is exhausted: line 215
Finish ==
    /\ pc = "loop"
    /\ Len(rows) = Len(files)
    /\ pc' = "done"
    /\ UNCHANGED << input_dir, files, clf_model, error, rows, clf_log, dec_in, dec >>
    /\ UNCHANGED harvest_vars

\* a call of decide() by a user of the module, which exists once the script
\* has run to its end.  decide() reads and writes nothing but its arguments
\* and the reply of clf, so a run of the model follows one call.
Decide ==
    /\ pc = "done"
    /\ dec.kind = "none"
    /\ \E text \in { Texts[i] : i \in 1..Len(Texts) }, cfg \in Configs, raised \in BOOLEAN :
         LET reply == IF raised THEN [raised |-> TRUE]
                      ELSE [raised |-> FALSE, value |-> scorer_result(clf_model, text)]
         IN  /\ dec_in' = [kind |-> "call", text |-> text, cfg |-> cfg, reply |-> reply]
             /\ dec' = decide(text, cfg, reply)
    /\ UNCHANGED << input_dir, files, clf_model, pc, error, rows, clf_log >>
    /\ UNCHANGED harvest_vars

Next == Startup \/ BatchStep \/ Finish \/ Decide

Spec == Init /\ [][Next]_vars

(***************************************************************************)
(* fetch_all_dois (src/extract_doi_from_keywords.py, lines 4-47), a        *)
(* program of its own: it pages through the works of the Crossref API and  *)
(* writes their DOIs to output_file.  The server is free to answer every   *)
(* request with any status and any page.  A value that may be missing      *)
(* (dict.get) is a sequence of length 0 or 1.                              *)
(***************************************************************************)
\* range(3) of line 22
RETRIES == 3

MaxPages == 2

MaxItems == 2

Dois == { "10.1000/a", "10.1000/b" }

\* the works of a page: with a DOI, with an empty DOI, without the key
Items == { [DOI |-> d] : d \in Dois \cup { "" } } \cup { [title |-> "untitled"] }

ItemLists == UNION { [1..n -> Items] : n \in 0..MaxItems }

\* r.json()["message"]: "items" and "next-cursor" may be missing
Messages ==
    [items : { << >> } \cup { << l >> : l \in ItemLists },
     next_cursor : { << >>, << "" >>, << "AoJ" >> }]

HttpResponses ==
    { [status_code |-> 500] } \cup { [status_code |-> 200, message |-> m] : m \in Messages }

\* Python's truth of a value that may be None or an empty string
truthy(opt) == opt # << >> /\ opt[1] # ""

\* msg.get("items", []) (line 31)
items_of(msg) == IF msg.items = << >> THEN << >> ELSE msg.items[1]

\* it.get("DOI") (line 36)
doi_of(it) == IF "DOI" \in DOMAIN it THEN << it.DOI >> ELSE << >>

\* every DOI of the page is written
writes_every_doi(doi, seen_so_far) == truthy(doi)

\* line 37
writes_doi(doi, seen_so_far) == truthy(doi) /\ doi[1] \notin seen_so_far

\* one pass of the for loop of lines 22-25, and lines 26-28 after the last
Request ==
    /\ hpc = "request"
    /\ attempt < RETRIES
    /\ \E reply \in HttpResponses :
         /\ response' = reply
         /\ attempt' = attempt + 1
         /\ requests' = Append(requests, [page |-> page, status_code |-> reply.status_code])
         /\ hpc' = IF reply.status_code = 200 THEN "page"
                   ELSE IF attempt + 1 = RETRIES THEN "done"
                   ELSE "request"
    /\ UNCHANGED << cursor, pending, seen, out_file, total_fetched, page >>
    /\ UNCHANGED classifier_vars

\* lines 30-33
ReadPage ==
    /\ hpc = "page"
    /\ LET items == items_of(response.message)
       IN  IF items = << >>
           THEN hpc' = "done" /\ pending' = pending
           ELSE hpc' = "items" /\ pending' = items
    /\ UNCHANGED << cursor, attempt, response, seen, out_file, total_fetched, page, requests >>
    /\ UNCHANGED classifier_vars

\* one pass of the for loop of lines 35-39
TakeItem ==
    /\ hpc = "items"
    /\ pending # << >>
    /\ LET doi == doi_of(Head(pending))
       IN  IF writes_doi(doi, seen)
           THEN /\ out_file' = Append(out_file, doi[1] \o "\n")
                /\ seen' = seen \cup { doi[1] }
                /\ total_fetched' = total_fetched + 1
           ELSE UNCHANGED << out_file, seen, total_fetched >>
    /\ pending' = Tail(pending)
    /\ UNCHANGED << hpc, cursor, attempt, response, page, requests >>
    /\ UNCHANGED classifier_vars

\* lines 41-45, and back to line 15; pages are counted up to MaxPages
NextPage ==
    /\ hpc = "items"
    /\ pending = << >>
    /\ cursor' = response.message.next_cursor
    /\ IF ~truthy(cursor')
       THEN hpc' = "done" /\ UNCHANGED << attempt, page >>
       ELSE /\ page < MaxPages
            /\ hpc' = "request"
            /\ attempt' = 0
            /\ page' = page + 1
    /\ UNCHANGED << response, pending, seen, out_file, total_fetched, requests >>
    /\ UNCHANGED classifier_vars

\* the call of line 50; the classifier is another program and is not running
InitHarvest ==
    /\ input_dir = FALSE
    /\ files = << >>
    /\ clf_model = 1
    /\ pc = "start"
    /\ error = "none"
    /\ rows = << >>
    /\ clf_log = << >>
    /\ dec_in = [kind |-> "none"]
    /\ dec = [kind |-> "none"]
    /\ fetch_all_dois_entry

NextHarvest == Request \/ ReadPage \/ TakeItem \/ NextPage

SpecHarvest == InitHarvest /\ [][NextHarvest]_vars

(***************************************************************************)
(* Vocabulary of the properties.                                           *)
(***************************************************************************)
Range(xs) == { xs[i] : i \in 1..Len(xs) }

\* the text the batch loop sees for file number i
ItemText(i) == strip(files[i].content)

Rejected(text) == ~prefilter_memo[text]

\* a ScoreMap of the specification: one score for every label
WellFormed(res) ==
    /\ {"labels", "scores"} \subseteq DOMAIN res
    /\ Len(res.labels) = Len(res.scores)
    /\ Range(LABELS) \subseteq Range(res.labels)

\* the scores a result gives to the labels of a group, and their maximum
ScoresOf(res, group) ==
    { res.scores[i] : i \in { j \in 1..Len(res.labels) : res.labels[j] \in Range(group) } }

MaxScore(res, group) ==
    LET S == ScoresOf(res, group)
    IN  IF S = {} THEN 0 ELSE CHOOSE m \in S : \A x \in S : x <= m

\* decide() was called and clf answered with a result
Called == dec.kind # "none"

Answered == Called /\ ~dec_in.reply.raised

\* decide() returned the Decision of a scored text
Scored == Called /\ dec.kind = "return" /\ dec.clf_calls # << >>

\* a result the default thresholds accept
WouldAccept(res) ==
    /\ WellFormed(res)
    /\ MaxScore(res, POSITIVE_LABELS) >= 70
    /\ MaxScore(res, POSITIVE_LABELS) - MaxScore(res, NEGATIVE_LABELS) >= 15

(***************************************************************************)
(* C1.  A text the prefilter rejects is never handed to clf and comes out  *)
(* accept = False, priority = False, whatever the scorer would have said:  *)
(* in decide(), and in the batch loop, where every text of every call of   *)
(* clf passed the prefilter and the row of a rejected file says False.     *)
(***************************************************************************)
C1_RejectedNeverScored ==
    /\ (Called /\ Rejected(dec_in.text)) =>
          /\ dec.kind = "return"
          /\ dec.clf_calls = << >>
          /\ dec.value.accept = FALSE
          /\ dec.value.priority = FALSE
    /\ \A k \in 1..Len(clf_log) :
          \A j \in 1..Len(clf_log[k].texts) : ~Rejected(clf_log[k].texts[j])
    /\ \A i \in 1..Len(rows) : Rejected(ItemText(i)) => rows[i].accept = FALSE

\* decide() on a rejected text whose scores the thresholds would accept, after a
\* batch run that called clf and wrote the row of a rejected file whose scores
\* the thresholds would accept
C1_Witness ==
    /\ Answered
    /\ Rejected(dec_in.text)
    /\ WouldAccept(dec_in.reply.value)
    /\ clf_log # << >>
    /\ \E i \in 1..Len(rows) :
          /\ Rejected(ItemText(i))
          /\ WouldAccept(scorer_result(clf_model, ItemText(i)))

(***************************************************************************)
(* C2.  For a text that fails the prefilter decide() returns the reason    *)
(* "fails keyword prefilter" and score_pos, score_neg, score_prop and      *)
(* priority_score all 0.                                                   *)
(***************************************************************************)
C2_RejectionIsAllZero ==
    (Called /\ Rejected(dec_in.text)) =>
       /\ dec.kind = "return"
       /\ dec.value.reason = "fails keyword prefilter"
       /\ dec.value.score_pos = 0
       /\ dec.value.score_neg = 0
       /\ dec.value.score_prop = 0
       /\ dec.value.priority_score = 0

\* a rejected text with a property keyword whose scorer result is not zero
C2_Witness ==
    /\ Answered
    /\ Rejected(dec_in.text)
    /\ WellFormed(dec_in.reply.value)
    /\ MaxScore(dec_in.reply.value, POSITIVE_LABELS) > 0
    /\ dec.value.reason = "fails keyword prefilter"

(***************************************************************************)
(* C3.  The prefilter passes a text exactly when it has polymer vocabulary *)
(* and (an MD-method term or a force-field term).  decide() calls clf      *)
(* exactly for the texts that pass, so the call shows the result.          *)
(***************************************************************************)
signals_memo == [t \in TextUniverse |-> << has_poly(t), md_hit(t), ff_hit(t) >>]

C3_PrefilterFormula ==
    Called =>
       LET sig == signals_memo[dec_in.text]
       IN  (dec.clf_calls # << >>) = (sig[1] /\ (sig[2] \/ sig[3]))

\* a text with a force-field term and neither polymer nor MD vocabulary is
\* rejected, after a batch run in which a file with polymer vocabulary and
\* neither MD nor force-field term was rejected and a file with polymer and MD
\* vocabulary was scored
C3_Witness ==
    /\ Called
    /\ signals_memo[dec_in.text] = << FALSE, FALSE, TRUE >>
    /\ dec.clf_calls = << >>
    /\ \E i \in 1..Len(rows) : signals_memo[ItemText(i)] = << TRUE, FALSE, FALSE >>
    /\ \E k \in 1..Len(clf_log) : \E j \in 1..Len(clf_log[k].texts) :
          signals_memo[clf_log[k].texts[j]] = << TRUE, TRUE, FALSE >>

(***************************************************************************)
(* C4.  For a text that passes the prefilter and a score map, accept is    *)
(* (score_pos >= accept_threshold) and (score_pos - score_neg >=           *)
(* accept_margin), score_pos and score_neg being the largest score of the  *)
(* positive and of the negative labels.                                    *)
(***************************************************************************)
C4_AcceptRule ==
    (Scored /\ WellFormed(dec_in.reply.value)) =>
       LET res == dec_in.reply.value
           cfg == dec_in.cfg
           sp  == MaxScore(res, POSITIVE_LABELS)
           sn  == MaxScore(res, NEGATIVE_LABELS)
       IN  /\ dec.value.score_pos = sp
           /\ dec.value.score_neg = sn
           /\ dec.value.accept = ((sp >= cfg.accept_threshold) /\ (sp - sn >= cfg.accept_margin))

\* 0.71 against 0.60 under the defaults: over the threshold, under the margin
C4_Witness ==
    /\ Scored
    /\ dec_in.cfg = DefaultConfig
    /\ dec.value.score_pos = 71
    /\ dec.value.score_neg = 60
    /\ dec.value.accept = FALSE

(***************************************************************************)
(* C5.  For a text that passes the prefilter and a score map,              *)
(* priority_score is 0.7*score_prop + 0.3*score_pos + kw_boost, kw_boost   *)
(* being 0.05 when the text matches a property keyword and 0 otherwise,    *)
(* and priority is (priority_score >= priority_threshold) and (score_prop  *)
(* - score_neg >= priority_margin), score_prop being the largest score of  *)
(* the property labels.  Scores are in hundredths and priority_score in    *)
(* thousandths.                                                            *)
(***************************************************************************)
C5_PriorityRule ==
    (Scored /\ WellFormed(dec_in.reply.value)) =>
       LET res == dec_in.reply.value
           cfg == dec_in.cfg
           sp  == MaxScore(res, POSITIVE_LABELS)
           sn  == MaxScore(res, NEGATIVE_LABELS)
           sr  == MaxScore(res, PROPERTY_LABELS)
           kw  == property_terms_memo[dec_in.text]
           ps  == 7 * sr + 3 * sp + (IF kw THEN 50 ELSE 0)
       IN  /\ dec.value.score_prop = sr
           /\ dec.value.priority_score = ps
           /\ dec.value.priority =
                 ((ps >= 10 * cfg.priority_threshold) /\ (sr - sn >= cfg.priority_margin))

\* a text with a property keyword whose boost lifts priority_score over the
\* default threshold: 0.7*0.62 + 0.3*0.69 = 0.641, and 0.691 with the boost
C5_Witness ==
    /\ Scored
    /\ dec_in.cfg = DefaultConfig
    /\ dec.value.prop_keywords
    /\ dec.value.score_prop = 62
    /\ dec.value.score_pos = 69
    /\ dec.value.priority_score = 691
    /\ dec.value.priority = TRUE

(***************************************************************************)
(* C6.  Running the texts one by one through decide() gives the same       *)
(* accept and the same priority, position for position, as the batch run   *)
(* gives for them with the same scorer.  Stated for the text of the call   *)
(* of decide() under the default configuration and every row of that text. *)
(***************************************************************************)
C6_BatchEqualsSingle ==
    \A i \in 1..Len(rows) :
       (Called /\ dec.kind = "return" /\ dec_in.cfg = DefaultConfig
               /\ dec_in.text = ItemText(i)) =>
          /\ rows[i].accept = dec.value.accept
          /\ "priority" \in DOMAIN rows[i]
          /\ rows[i].priority = dec.value.priority

\* the part of C6 the batch loop has: the accept of every row is the accept
\* decide() returns for that text under the default configuration
BatchAcceptEqualsDefaultDecide ==
    \A i \in 1..Len(rows) :
       (Called /\ dec.kind = "return" /\ dec_in.cfg = DefaultConfig
               /\ dec_in.text = ItemText(i)) =>
          rows[i].accept = dec.value.accept

(***************************************************************************)
(* C7.  Whatever thresholds and margins the caller chooses, the batch loop *)
(* decides a scored file with the values decide() uses, so the accept of a *)
(* row is the accept decide() returns for that text under the caller's     *)
(* configuration.                                                          *)
(***************************************************************************)
C7_BatchUsesCallerConfig ==
    \A i \in 1..Len(rows) :
       (Scored /\ dec_in.text = ItemText(i)) => rows[i].accept = dec.value.accept

(***************************************************************************)
(* C8.  The batch run writes one row for every file, in the order of the   *)
(* files over all chunks, each with the name of its own file; the file the *)
(* prefilter rejects has its row too, with accept = False.  The rows       *)
(* written so far are at every moment the rows of the first files, and the *)
(* run that reaches its end has written them all.                          *)
(***************************************************************************)
\* the name of a file within the input folder
NameInFolder(path) == SubSeq(path, Len("abstract/") + 1, Len(path))

C8_OneRowPerFileInOrder ==
    /\ Len(rows) <= Len(files)
    /\ \A i \in 1..Len(rows) :
          /\ rows[i].filename = NameInFolder(files[i].path)
          /\ Rejected(ItemText(i)) => rows[i].accept = FALSE
    /\ pc = "done" => Len(rows) = Len(files)

\* a finished run over more files than one chunk holds, a rejected file before
\* an accepted one
C8_Witness ==
    /\ pc = "done"
    /\ Len(files) > BATCH_SIZE
    /\ \E i, j \in 1..Len(rows) :
          /\ i < j
          /\ Rejected(ItemText(i))
          /\ rows[j].accept = TRUE

(***************************************************************************)
(* C9.  When clf is unavailable or its response is malformed (it lacks the *)
(* scores of some labels), decide() ends in a failure and returns no       *)
(* Decision.                                                               *)
(***************************************************************************)
C9_MalformedIsFailure ==
    (Called /\ dec.clf_calls # << >>
            /\ (dec_in.reply.raised \/ ~WellFormed(dec_in.reply.value))) =>
       dec.kind = "raise"

(***************************************************************************)
(* C10.  A scorer failure in one chunk of a batch run stays with the files *)
(* of the failed call: every other file still gets its row.  Stated of the *)
(* run a scorer failure has ended.                                         *)
(***************************************************************************)
\* the files handed to the call of clf that failed
FailedItems ==
    { i \in (Len(rows) + 1)..Min(Len(rows) + BATCH_SIZE, Len(files)) :
         ~Rejected(ItemText(i)) }

C10_FailureIsolated ==
    (pc = "raised" /\ error \in {"scorer", "KeyError"}) =>
       \A i \in 1..Len(files) : i \notin FailedItems => i <= Len(rows)

(***************************************************************************)
(* C11.  A configuration with a threshold or margin outside [0, 1] is      *)
(* refused before any text is decided: decide() called with such a         *)
(* configuration never returns a Decision.                                 *)
(***************************************************************************)
InUnitRange(cfg) ==
    \A k \in DOMAIN cfg : 0 <= cfg[k] /\ cfg[k] <= 100

C11_BadConfigRefused ==
    (Called /\ ~InUnitRange(dec_in.cfg)) => dec.kind # "return"

(***************************************************************************)
(* C12.  The taxonomy is three non-empty, pairwise disjoint label          *)
(* sequences, and the candidate labels of every call of clf, in decide()   *)
(* and in the batch loop, are the positive labels followed by the property *)
(* labels followed by the negative labels, the same in every call.         *)
(***************************************************************************)
Disjoint(xs, ys) == Range(xs) \cap Range(ys) = {}

C12_LabelTaxonomy ==
    /\ POSITIVE_LABELS # << >> /\ PROPERTY_LABELS # << >> /\ NEGATIVE_LABELS # << >>
    /\ Disjoint(POSITIVE_LABELS, PROPERTY_LABELS)
    /\ Disjoint(POSITIVE_LABELS, NEGATIVE_LABELS)
    /\ Disjoint(PROPERTY_LABELS, NEGATIVE_LABELS)
    /\ \A k \in 1..Len(clf_log) :
          clf_log[k].candidate_labels
             = POSITIVE_LABELS \o PROPERTY_LABELS \o NEGATIVE_LABELS
    /\ Called =>
          \A k \in 1..Len(dec.clf_calls) :
             dec.clf_calls[k].candidate_labels
                = POSITIVE_LABELS \o PROPERTY_LABELS \o NEGATIVE_LABELS

\* two chunks of the batch run and a call of decide() each called clf
C12_Witness ==
    /\ Len(clf_log) >= 2
    /\ Called
    /\ dec.clf_calls # << >>

(***************************************************************************)
(* C13.  Every Decision decide() returns, for a rejected text as for a     *)
(* scored one, has the fields accept, priority, reason, score_pos,         *)
(* score_neg, score_prop, priority_score, prop_keywords and top, and top   *)
(* holds at most six pairs.                                                *)
(***************************************************************************)
DecisionFields ==
    { "accept", "priority", "reason", "score_pos", "score_neg", "score_prop",
      "priority_score", "prop_keywords", "top" }

C13_DecisionHasAllFields ==
    (Called /\ dec.kind = "return") =>
       /\ DecisionFields \subseteq DOMAIN dec.value
       /\ Len(dec.value.top) <= 6

(***************************************************************************)
(* C14.  top is the six highest-scoring (label, score) pairs of the full   *)
(* label set in descending order of score, and pairs of equal score stand  *)
(* in the order of LABELS, in whatever order the scorer returned them.     *)
(***************************************************************************)
PlaceIn(order, label) == CHOOSE i \in 1..Len(order) : order[i] = label

\* pair x stands before pair y: a higher score, or the same score and an
\* earlier place in the given order of the labels
Before(order, x, y) ==
    \/ x[2] > y[2]
    \/ x[2] = y[2] /\ PlaceIn(order, x[1]) < PlaceIn(order, y[1])

\* top is the first n pairs of the result res under that ordering
IsTopOf(top, res, order, n) ==
    LET pairs == { << res.labels[j], res.scores[j] >> : j \in 1..Len(res.labels) }
    IN  /\ Len(top) = Min(n, Cardinality(pairs))
        /\ Range(top) \subseteq pairs
        /\ \A i, j \in 1..Len(top) : i < j => Before(order, top[i], top[j])
        /\ \A p \in pairs \ Range(top) : Before(order, top[Len(top)], p)

C14_TopTiesInLabelOrder ==
    (Scored /\ WellFormed(dec_in.reply.value)) =>
       IsTopOf(dec.value.top, dec_in.reply.value, LABELS, 6)


\* C14, as the code has it: top is the six highest-scoring pairs of the labels
\* the scorer returned, in descending order of score, and pairs of equal score
\* stand in the order in which the scorer returned them.
C14_TopTiesInScorerOrder ==
    Scored => IsTopOf(dec.value.top, dec_in.reply.value, dec_in.reply.value.labels, 6)

\* a scored text whose top holds two pairs of equal score that the scorer
\* returned against the order of LABELS
C14_Witness ==
    /\ Scored
    /\ WellFormed(dec_in.reply.value)
    /\ \E i, j \in 1..Len(dec.value.top) :
          /\ i < j
          /\ dec.value.top[i][2] = dec.value.top[j][2]
          /\ PlaceIn(LABELS, dec.value.top[i][1]) > PlaceIn(LABELS, dec.value.top[j][1])

(***************************************************************************)
(* C15.  accept is monotone in score_pos: when a text was accepted, the    *)
(* same configuration accepts every higher score_pos with the same         *)
(* score_neg and score_prop (score_prop is not read by the rule).          *)
(***************************************************************************)
C15_AcceptMonotoneInScorePos ==
    (Scored /\ dec.value.accept) =>
       \A higher \in (dec.value.score_pos + 1)..100 :
          accept_rule(higher, dec.value.score_neg, dec_in.cfg)

\* a text accepted with score_pos right at the threshold, so every higher
\* score is a case of the claim
C15_Witness ==
    /\ Scored
    /\ dec.value.accept
    /\ dec.value.score_pos = dec_in.cfg.accept_threshold
    /\ dec.value.score_pos < 100

(***************************************************************************)
(* C17.  For the text "We performed coarse-grained MARTINI molecular       *)
(* dynamics of polystyrene melts", a scorer reply with score_pos = 0.85,   *)
(* score_neg = 0.05, score_prop = 0.40 and the default configuration,      *)
(* decide() returns accept = True, priority_score = 0.535 and              *)
(* priority = False.                                                       *)
(***************************************************************************)
ScenarioText ==
    "We performed coarse-grained MARTINI molecular dynamics of polystyrene melts"

\* the scorer's reply has the scores of the scenario
ScenarioScores(res) ==
    /\ WellFormed(res)
    /\ MaxScore(res, POSITIVE_LABELS) = 85
    /\ MaxScore(res, NEGATIVE_LABELS) = 5
    /\ MaxScore(res, PROPERTY_LABELS) = 40

ScenarioCall ==
    /\ Answered
    /\ dec_in.cfg = DefaultConfig
    /\ ScenarioScores(dec_in.reply.value)

C17_ScenarioAccepted ==
    (ScenarioCall /\ dec_in.text = ScenarioText) =>
       /\ dec.kind = "return"
       /\ dec.value.accept = TRUE
       /\ dec.value.priority_score = 535
       /\ dec.value.priority = FALSE

\* C17, as the code has it: the text of the scenario has no "polymer" in it, so
\* decide() returns the rejection of the prefilter with accept = False,
\* priority = False and priority_score = 0 and never asks the scorer; the values
\* of the scenario are those of a text that passes the prefilter and has no
\* property keyword.
C17_ScenarioRejected ==
    /\ (ScenarioCall /\ dec_in.text = ScenarioText) =>
          /\ dec.kind = "return"
          /\ dec.clf_calls = << >>
          /\ dec.value.accept = FALSE
          /\ dec.value.priority = FALSE
          /\ dec.value.priority_score = 0
    /\ (ScenarioCall /\ ~Rejected(dec_in.text) /\ ~property_terms_memo[dec_in.text]) =>
          /\ dec.kind = "return"
          /\ dec.value.accept = TRUE
          /\ dec.value.priority_score = 535
          /\ dec.value.priority = FALSE

\* decide() was called on the text of the scenario with its scores and the
\* default configuration
C17_Witness ==
    /\ ScenarioCall
    /\ dec_in.text = ScenarioText
    /\ dec.kind = "return"

(***************************************************************************)
(* C18.  The empty string matches no pattern: prefilter returns False and  *)
(* decide() returns the ordinary rejection (accept = False,                *)
(* priority = False), it raises nothing and does not ask the scorer, even  *)
(* one that would raise.                                                   *)
(***************************************************************************)
C18_EmptyTextIsRejected ==
    /\ prefilter_memo[""] = FALSE
    /\ (Called /\ dec_in.text = "") =>
          /\ dec.kind = "return"
          /\ dec.clf_calls = << >>
          /\ dec.value.accept = FALSE
          /\ dec.value.priority = FALSE
          /\ dec.value.reason = "fails keyword prefilter"

\* decide("") with a scorer that raises when it is called
C18_Witness ==
    /\ Called
    /\ dec_in.text = ""
    /\ dec_in.reply.raised
    /\ dec.kind = "return"

(***************************************************************************)
(* C19.  The batch loop takes the files in consecutive chunks of at most   *)
(* BATCH_SIZE.  For a chunk it calls clf at most once, with exactly the    *)
(* texts of the chunk that pass the prefilter, in their order, so with     *)
(* never more than BATCH_SIZE texts, and it does not call clf for a chunk  *)
(* none of whose texts passes.                                             *)
(***************************************************************************)
\* the number of the last file of the chunk that starts at file number first
ChunkEnd(first) == Min(first + BATCH_SIZE - 1, Len(files))

\* the passing texts of that chunk, in the order of the files
PassingOfChunk(first) ==
    SelectSeq([i \in 1..(ChunkEnd(first) - first + 1) |-> ItemText(first + i - 1)],
              LAMBDA t : prefilter_memo[t])

C19_OneCallPerChunk ==
    /\ Len(rows) % BATCH_SIZE = 0 \/ Len(rows) = Len(files)
    /\ \A k \in 1..Len(clf_log) :
          /\ (clf_log[k].first - 1) % BATCH_SIZE = 0
          /\ clf_log[k].texts = PassingOfChunk(clf_log[k].first)
          /\ clf_log[k].texts # << >>
          /\ Len(clf_log[k].texts) <= BATCH_SIZE
    /\ \A k, l \in 1..Len(clf_log) : k < l => clf_log[k].first < clf_log[l].first

\* a finished run over more than one chunk: one call took a full chunk and
\* another chunk, with no passing text, had no call
C19_Witness ==
    /\ pc = "done"
    /\ \E k \in 1..Len(clf_log) : Len(clf_log[k].texts) = BATCH_SIZE
    /\ \E first \in 1..Len(files) :
          /\ (first - 1) % BATCH_SIZE = 0
          /\ PassingOfChunk(first) = << >>
          /\ \A k \in 1..Len(clf_log) : clf_log[k].first # first

(***************************************************************************)
(* C20.  priority does not depend on accept: under the default             *)
(* configuration some scores of a text that passes the prefilter give      *)
(* priority = True with accept = False, and others give accept = True with *)
(* priority = False.                                                       *)
(***************************************************************************)
\* the Decisions of the default configuration for the passing texts and the
\* well-formed results of the scorers: the ones decide() returns in a run
DefaultDecisions ==
    { scored_decision(t, DefaultConfig, Responses[r]) :
         t \in { u \in TextUniverse : prefilter_memo[u] },
         r \in { q \in 1..Len(Responses) : WellFormed(Responses[q]) } }

C20_PriorityIndependentOfAccept ==
    /\ \E d \in DefaultDecisions : d.priority /\ ~d.accept
    /\ \E d \in DefaultDecisions : d.accept /\ ~d.priority
    /\ (Scored /\ dec_in.cfg = DefaultConfig /\ WellFormed(dec_in.reply.value)) =>
          dec.value \in DefaultDecisions

\* decide() returned priority = True with accept = False under the defaults
C20_Witness ==
    /\ Scored
    /\ dec_in.cfg = DefaultConfig
    /\ dec.value.priority
    /\ ~dec.value.accept

(***************************************************************************)
(* C21.  The property-keyword boost reaches priority_score and priority    *)
(* only: for the same reply of the scorer and the same configuration, a    *)
(* passing text with a property keyword and one without get the same       *)
(* accept, reason, score_pos, score_neg and score_prop, and a              *)
(* priority_score that differs by exactly 0.05.                            *)
(***************************************************************************)
PassingTexts == { t \in TextUniverse : prefilter_memo[t] }

\* the passing texts that differ from text in having a property keyword
KeywordCounterparts(text) ==
    { t \in PassingTexts : property_terms_memo[t] # property_terms_memo[text] }

\* priority_score of the decision with the keyword minus that of the one without
BoostBetween(d, e) ==
    IF d.prop_keywords THEN d.priority_score - e.priority_score
    ELSE e.priority_score - d.priority_score

C21_BoostOnlyInPriorityScore ==
    Scored =>
       \A other \in KeywordCounterparts(dec_in.text) :
          LET e == scored_decision(other, dec_in.cfg, dec_in.reply.value)
          IN  /\ e.accept = dec.value.accept
              /\ e.reason = dec.value.reason
              /\ e.score_pos = dec.value.score_pos
              /\ e.score_neg = dec.value.score_neg
              /\ e.score_prop = dec.value.score_prop
              /\ e.prop_keywords # dec.value.prop_keywords
              /\ BoostBetween(dec.value, e) = 50

\* a scored text with a property keyword whose priority the boost decides:
\* the same reply gives a text without the keyword priority = False
C21_Witness ==
    /\ Scored
    /\ dec.value.prop_keywords
    /\ dec.value.priority
    /\ \E other \in KeywordCounterparts(dec_in.text) :
          ~scored_decision(other, dec_in.cfg, dec_in.reply.value).priority

(***************************************************************************)
(* C22.  In every chunk the accept written for a file that passes the      *)
(* prefilter is computed from the scorer's output for that file's own      *)
(* text: output k goes to the place of the k-th passing file, also when    *)
(* the scorer answers a call of one text with a single dict.  No passing   *)
(* file keeps the initial False without its output having been read, and   *)
(* no output is written to the place of a rejected file.                   *)
(***************************************************************************)
\* accept as lines 199-206 compute it from one output of the scorer
AcceptOfOutput(res) ==
    /\ MaxScore(res, POSITIVE_LABELS) >= 70
    /\ MaxScore(res, POSITIVE_LABELS) - MaxScore(res, NEGATIVE_LABELS) >= 15

C22_OutputGoesToItsOwnItem ==
    \A i \in 1..Len(rows) :
       rows[i].accept =
          IF Rejected(ItemText(i)) THEN FALSE
          ELSE AcceptOfOutput(scorer_result(clf_model, ItemText(i)))

\* a written chunk whose first file is rejected and whose second file passes
\* and is accepted on the single dict the scorer returned for it
C22_Witness ==
    /\ \E i \in 1..(Len(rows) - 1) :
          /\ (i - 1) % BATCH_SIZE = 0
          /\ Rejected(ItemText(i))
          /\ rows[i + 1].accept
          /\ \E k \in 1..Len(clf_log) : clf_log[k].first = i /\ clf_log[k].is_dict

(***************************************************************************)
(* C23.  fetch_all_dois, whatever the server answers: a page is requested  *)
(* at most 3 times, and the harvest stops at the first page whose requests *)
(* all got a status other than 200; it also stops at a page without items  *)
(* or without a next cursor; and at every step the output file holds each  *)
(* DOI at most once and total_fetched is the number of its lines.          *)
(***************************************************************************)
\* the requests made for page n
RequestsOf(n) == SelectSeq(requests, LAMBDA q : q.page = n)

\* every one of the three requests for page n failed
GaveUpOn(n) ==
    /\ Len(RequestsOf(n)) = 3
    /\ \A k \in 1..3 : RequestsOf(n)[k].status_code # 200

\* the page of the last response has been read and the loop went past it
PageIsRead == response.status_code = 200 /\ hpc # "page"

PageIsFinished == PageIsRead /\ ~(hpc = "items")

C23_HarvestStopsAndWritesOnce ==
    /\ \A n \in 1..page :
          /\ Len(RequestsOf(n)) <= 3
          /\ GaveUpOn(n) => (hpc = "done" /\ n = page)
    /\ \A k \in 1..Len(requests) : requests[k].page <= page
    /\ (PageIsRead /\ items_of(response.message) = << >>) => hpc = "done"
    /\ (PageIsFinished /\ ~truthy(response.message.next_cursor)) => hpc = "done"
    /\ \A i, j \in 1..Len(out_file) : out_file[i] = out_file[j] => i = j
    /\ total_fetched = Len(out_file)

\* the harvest got its second page on a retry, the page named one DOI twice
\* and had no next cursor: the DOI is written once and the loop has stopped
C23_Witness ==
    /\ hpc = "done"
    /\ page = 2
    /\ Len(RequestsOf(2)) > 1
    /\ response.status_code = 200
    /\ Len(items_of(response.message)) = 2
    /\ items_of(response.message)[1] = items_of(response.message)[2]
    /\ truthy(doi_of(items_of(response.message)[1]))
    /\ total_fetched = 1
=============================================================================
